---- MODULE Spec2Model ----
(***************************************************************************)
(* Model of src/js/loader-module.js: a square is appended to the page, a   *)
(* timer of delayInMs starts the motion and the GET request together, one  *)
(* animation-frame callback per repaint moves the square, and the final    *)
(* frame attaches the colour callback to the promise of handleFetch.       *)
(*                                                                         *)
(* Scheduling follows the browser's event loop: timer callbacks, animation *)
(* frame callbacks and network events are tasks; promise continuations are *)
(* microtasks, and every queued microtask runs before the next task.       *)
(* The clock (Date.now) is non-decreasing and advances in steps of         *)
(* ClockStep; lengths are exact rationals (num/den in lowest terms).       *)
(***************************************************************************)
EXTENDS Integers, Sequences, FiniteSets, TLC

VARIABLES
    pc,              \* "idle" (startLoader not called), "delay" (timer pending), "started",
                     \* "threw" (startLoader threw), "returned" (move returned early)
    now,             \* Date.now(), in ms since the page was opened
    timerSetAt,      \* the time at which move() called setTimeout
    startTime,       \* const startTime of the timer callback
    inBody,          \* document.body contains the shape
    left,            \* shape.style.left, in px (a rational)
    backgroundColor, \* shape.style.backgroundColor
    rafScheduled,    \* a requestAnimationFrame(animate) callback is pending
    net,             \* the request: "none", "inflight", "responded", "reading", "bodyRead", "failed", "bodyFailed"
    response,        \* the Response object fetch() resolved with
    hfState,         \* the promise handleFetch returned: "none", "pending", "fulfilled", "rejected"
    hfValue,         \* its value <<fetchResult, fetchError>>
    reactions,       \* number of .then callbacks waiting on a pending fetchPromise
    microtasks,      \* the microtask queue
    requests,        \* number of calls of fetch()
    completions,     \* number of times animate took its else branch
    applyCount,      \* number of calls of applyBgColor
    settledWhen,     \* history: "" until fetchPromise settles, then "moving" or
                     \* "stopped", what the motion was doing at that moment
    shapeToMove,     \* opts.shapeToMove: "div" (an element) or "null"
    consoleErrors    \* number of calls of console.error

vars == <<pc, now, timerSetAt, startTime, inBody, left, backgroundColor,
          rafScheduled, net, response, hfState, hfValue, reactions,
          microtasks, requests, completions, applyCount, settledWhen,
          shapeToMove, consoleErrors>>

----------------------------------------------------------------------------
(* Bounds of the model *)

\* granularity of the clock, in ms
ClockStep == 250
\* the clock stops advancing here
MaxNow == 3000
\* longest response body, in characters
MaxBodyLen == 1
\* startLoader is called no later than this, in ms
MaxInvokeAt == 500

----------------------------------------------------------------------------
(* Program constants *)

delayInMs == 1000
moveDurationInMs == 1000
pxSize == 100
defaultBgColor == "black"

shapeBgColor ==
    [default |-> "black", progress |-> "blue", complete |-> "green", error |-> "red"]

----------------------------------------------------------------------------
(* Exact arithmetic for the Number values the code computes with *)

GCD[a \in Nat, b \in Nat] == IF b = 0 THEN a ELSE GCD[b, a % b]

Abs(n) == IF n < 0 THEN -n ELSE n

Rat(n, d) ==
    LET g == GCD[Abs(n), d]
    IN  [num |-> n \div g, den |-> d \div g]

RatLess(a, b) == a.num * b.den < b.num * a.den

RatMul(a, b) == Rat(a.num * b.num, a.den * b.den)

RatMin(a, b) == IF RatLess(b, a) THEN b ELSE a

----------------------------------------------------------------------------
(* JavaScript values: null, undefined, strings (sequences of characters),  *)
(* Error objects (s holds the message) and numbers                         *)

Null == [t |-> "null", s |-> <<>>]
Undefined == [t |-> "undefined", s |-> <<>>]
Str(s) == [t |-> "string", s |-> s]
Err(msg) == [t |-> "error", s |-> <<msg>>]
JsNum(n) == [t |-> "number", s |-> <<n>>]

\* the characters a response body is made of
BodyChars == {"0", "1", " ", "x"}

RECURSIVE SeqsUpTo(_)
SeqsUpTo(n) ==
    IF n = 0 THEN {<<>>}
    ELSE LET shorter == SeqsUpTo(n - 1)
         IN  shorter \cup {Append(s, c) : s \in {x \in shorter : Len(x) = n - 1}, c \in BodyChars}

Bodies == SeqsUpTo(MaxBodyLen)

\* Number values: an integer or NaN
Num(n) == [nan |-> FALSE, n |-> n]
NaN == [nan |-> TRUE, n |-> 0]

\* ToBoolean, as used by the || operator
Truthy(v) ==
    CASE v.t = "null" -> FALSE
      [] v.t = "undefined" -> FALSE
      [] v.t = "string" -> v.s # <<>>
      [] v.t = "number" -> v.s[1] # 0
      [] OTHER -> TRUE

\* a || b
Or(a, b) == IF Truthy(a) THEN a ELSE b

RECURSIVE TrimStart(_)
TrimStart(s) == IF s # <<>> /\ Head(s) = " " THEN TrimStart(Tail(s)) ELSE s

RECURSIVE TrimEnd(_)
TrimEnd(s) ==
    IF s # <<>> /\ s[Len(s)] = " " THEN TrimEnd(SubSeq(s, 1, Len(s) - 1)) ELSE s

Trim(s) == TrimEnd(TrimStart(s))

IsDigits(s) == s # <<>> /\ \A i \in 1..Len(s) : s[i] \in {"0", "1"}

RECURSIVE DigitsValue(_, _)
DigitsValue(s, base) ==
    IF s = <<>> THEN 0
    ELSE DigitsValue(SubSeq(s, 1, Len(s) - 1), base) * base
         + (IF s[Len(s)] = "1" THEN 1 ELSE 0)

\* StringToNumber over BodyChars: white space is trimmed, the empty string is
\* 0, a run of digits is a decimal literal, 0x followed by digits is a
\* hexadecimal literal, anything else is NaN
StringToNumber(s) ==
    LET t == Trim(s)
    IN  IF t = <<>> THEN Num(0)
        ELSE IF IsDigits(t) THEN Num(DigitsValue(t, 10))
        ELSE IF Len(t) >= 3 /\ t[1] = "0" /\ t[2] = "x" /\ IsDigits(SubSeq(t, 3, Len(t)))
             THEN Num(DigitsValue(SubSeq(t, 3, Len(t)), 16))
        ELSE NaN

\* the unary + of getBgColor: ToNumber(value). An Error object converts
\* through its string "Error: <message>", which is no numeric literal.
ToNumber(v) ==
    CASE v.t = "null" -> Num(0)
      [] v.t = "undefined" -> NaN
      [] v.t = "string" -> StringToNumber(v.s)
      [] v.t = "number" -> Num(v.s[1])
      [] OTHER -> NaN

\* the case labels of a switch compare with ===; NaN equals nothing
StrictEq(x, n) == ~x.nan /\ x.n = n

----------------------------------------------------------------------------
(* createBgColorManager *)

\* a default parameter applies to undefined only (null is passed through)
DefaultParam(value, dflt) == IF value.t = "undefined" THEN dflt ELSE value

\* the case labels 0 and 1 exchanged
getBgColorSwapped(value) ==
    LET v == ToNumber(DefaultParam(value, JsNum(-1)))
    IN  IF StrictEq(v, 1) THEN shapeBgColor.progress
        ELSE IF StrictEq(v, 0) THEN shapeBgColor.complete
        ELSE shapeBgColor.error

getBgColor(value) ==
    LET v == ToNumber(DefaultParam(value, JsNum(-1)))
    IN  IF StrictEq(v, 0) THEN shapeBgColor.progress
        ELSE IF StrictEq(v, 1) THEN shapeBgColor.complete
        ELSE shapeBgColor.error

\* applyBgColor(value, shapeToMove): the colour written to the shape
applyBgColor(value) == getBgColor(DefaultParam(value, JsNum(-1)))

----------------------------------------------------------------------------
(* handleFetch: an async function, resumed by a microtask after each await *)

NoResponse == [ok |-> FALSE, body |-> <<>>]

\* a microtask: the continuation of handleFetch after the await of fetch()
\* (at = "fetch") or of response.text() (at = "text"), entered normally with
\* the awaited value or by the rejection being thrown; or the callback
\* passed to fetchPromise.then (job = "then")
ResumeJob(at, thrown, val) == [job |-> "handleFetch", at |-> at, thrown |-> thrown, val |-> val]
ThenJob == [job |-> "then", at |-> "", thrown |-> FALSE, val |-> Null]

\* What handleFetch does when resumed: it awaits response.text(), returns
\* [text, null] or [null, error], or (never, as all of it is inside the try)
\* lets an exception escape
AwaitText == [kind |-> "await", value |-> <<Null, Null>>]
Return(pair) == [kind |-> "return", value |-> pair]
Throw(e) == [kind |-> "throw", value |-> <<Null, e>>]

\* the test of response.ok left out
handleFetchNoOkCheck(at, thrown, val, resp) ==
    IF thrown THEN Return(<<Null, val>>)
    ELSE IF at = "fetch" THEN AwaitText
    ELSE Return(<<val, Null>>)

\* the awaits left outside the try block
handleFetchNoCatch(at, thrown, val, resp) ==
    IF thrown THEN Throw(val)
    ELSE IF at = "fetch"
         THEN IF ~resp.ok
              THEN Return(<<Null, Err("Response was not ok")>>)
              ELSE AwaitText
    ELSE Return(<<val, Null>>)

handleFetch(at, thrown, val, resp) ==
    IF thrown THEN Return(<<Null, val>>)
    ELSE IF at = "fetch"
         THEN IF ~resp.ok
              THEN Return(<<Null, Err("Response was not ok")>>)
              ELSE AwaitText
    ELSE Return(<<val, Null>>)

----------------------------------------------------------------------------
(* The motion *)

One == Rat(1, 1)

\* the clamp of Math.min left out
ProgressUnclamped(elapsedTime) == Rat(elapsedTime, moveDurationInMs)

\* Math.min(elapsedTime / opts.moveDurationInMs, 1)
Progress(elapsedTime) == RatMin(Rat(elapsedTime, moveDurationInMs), One)

\* the progress written as it is, not multiplied by 100
setShapePostionUnscaled(progress) == progress

\* shapeToMove.style.left = `${progress * 100}px`
setShapePostion(progress) == RatMul(progress, Rat(100, 1))

\* the test written as progress > 1
KeepAnimatingInverted(progress) == RatLess(One, progress)

\* the test of animate: progress < 1
KeepAnimating(progress) == RatLess(progress, One)

Px(n) == Rat(n, 1)

----------------------------------------------------------------------------
\* the state after initializeLoader(url), but for the shape handle
InitLoader ==
    /\ pc = "idle"
    /\ now = 0
    /\ timerSetAt = 0
    /\ startTime = 0
    /\ inBody = FALSE
    /\ left = Px(0)
    /\ backgroundColor = defaultBgColor
    /\ rafScheduled = FALSE
    /\ net = "none"
    /\ response = NoResponse
    /\ hfState = "none"
    /\ hfValue = <<Null, Null>>
    /\ reactions = 0
    /\ microtasks = <<>>
    /\ requests = 0
    /\ completions = 0
    /\ applyCount = 0
    /\ settledWhen = ""
    /\ consoleErrors = 0

\* initializeLoader sets shapeToMove to the element createSquare() returns
Init ==
    /\ InitLoader
    /\ shapeToMove = "div"

\* appendShape and move called on any handle, a missing one included
InitAnyHandle ==
    /\ InitLoader
    /\ shapeToMove \in {"div", "null"}

\* the motion has been started and no further frame is scheduled
MotionStopped == pc = "started" /\ ~rafScheduled

\* a task (timer, animation frame, network event) starts only when no
\* microtask is left
TaskMayRun == microtasks = <<>>

\* time passes
Tick ==
    /\ TaskMayRun
    /\ now + ClockStep <= MaxNow
    /\ pc = "idle" => now + ClockStep <= MaxInvokeAt
    /\ now' = now + ClockStep
    /\ UNCHANGED <<shapeToMove, consoleErrors, pc, timerSetAt, startTime, inBody, left, backgroundColor,
                   rafScheduled, net, response, hfState, hfValue, reactions,
                   microtasks, requests, completions, applyCount, settledWhen>>

\* handleFetch called by move before setTimeout instead of in its callback
startLoaderFetchesFirst ==
    /\ pc = "idle"
    /\ TaskMayRun
    /\ inBody' = TRUE
    /\ pc' = "delay"
    /\ timerSetAt' = now
    /\ net' = "inflight"
    /\ requests' = requests + 1
    /\ hfState' = "pending"
    /\ UNCHANGED <<shapeToMove, consoleErrors, now, startTime, left, backgroundColor, rafScheduled,
                   response, hfValue, reactions, microtasks, completions,
                   applyCount, settledWhen>>

\* document.body.appendChild(shapeToMove) throws a TypeError when its
\* argument is no Node
appendChildThrows(shape) == shape = "null"

\* validateShape(shape), contained being document.body.contains(shape)
validateShape(shape, contained) == IF shape = "null" THEN FALSE ELSE contained

\* the number of console.error calls of validateShape(shape)
validateShapeErrors(shape) == IF shape = "null" THEN 1 ELSE 0

\* the number of console.error calls of appendShape after appendChild has
\* returned: !shapeToMove || !validateShape(shapeToMove)
appendShapeErrors(shape, contained) ==
    IF shape = "null" THEN 1
    ELSE IF ~validateShape(shape, contained) THEN validateShapeErrors(shape) + 1
    ELSE 0

\* the guard of move: if (!opts.shapeToMove) { console.error(...); return; }
moveReturnsEarly(shape) == shape = "null"

\* startLoader(): appendShape(opts.shapeToMove), then move(opts), which
\* finds the shape and sets the timer. An exception of appendChild leaves
\* appendShape and startLoader before anything else is done.
startLoader ==
    /\ pc = "idle"
    /\ TaskMayRun
    /\ IF appendChildThrows(shapeToMove)
       THEN /\ pc' = "threw"
            /\ UNCHANGED <<inBody, consoleErrors, timerSetAt>>
       ELSE /\ inBody' = TRUE
            /\ consoleErrors' = consoleErrors + appendShapeErrors(shapeToMove, TRUE)
                                + (IF moveReturnsEarly(shapeToMove) THEN 1 ELSE 0)
            /\ IF moveReturnsEarly(shapeToMove)
               THEN pc' = "returned" /\ UNCHANGED timerSetAt
               ELSE pc' = "delay" /\ timerSetAt' = now
    /\ UNCHANGED <<shapeToMove, now, startTime, left, backgroundColor, rafScheduled, net,
                   response, hfState, hfValue, reactions, microtasks,
                   requests, completions, applyCount, settledWhen>>

\* .then called right after handleFetch, in the timer callback
TimerFiredThenAtStart ==
    /\ pc = "delay"
    /\ TaskMayRun
    /\ now - timerSetAt >= delayInMs
    /\ pc' = "started"
    /\ startTime' = now
    /\ net' = "inflight"
    /\ requests' = requests + 1
    /\ hfState' = "pending"
    /\ rafScheduled' = TRUE
    /\ reactions' = reactions + 1
    /\ UNCHANGED <<shapeToMove, consoleErrors, now, timerSetAt, inBody, left, backgroundColor, response,
                   hfValue, microtasks, completions, applyCount, settledWhen>>

\* the first requestAnimationFrame placed in a callback of fetchPromise, so
\* that the timer callback itself requests no frame
TimerFiredNoFrame ==
    /\ pc = "delay"
    /\ TaskMayRun
    /\ now - timerSetAt >= delayInMs
    /\ pc' = "started"
    /\ startTime' = now
    /\ net' = "inflight"
    /\ requests' = requests + 1
    /\ hfState' = "pending"
    /\ rafScheduled' = FALSE
    /\ UNCHANGED <<shapeToMove, consoleErrors, now, timerSetAt, inBody, left,
                   backgroundColor, response, hfValue, reactions, microtasks,
                   completions, applyCount, settledWhen>>

\* the callback of setTimeout: takes the start time, calls handleFetch (which
\* runs up to its first await, so fetch() is called here) and asks for the
\* first animation frame
TimerFired ==
    /\ pc = "delay"
    /\ TaskMayRun
    /\ now - timerSetAt >= delayInMs
    /\ pc' = "started"
    /\ startTime' = now
    /\ net' = "inflight"
    /\ requests' = requests + 1
    /\ hfState' = "pending"
    /\ rafScheduled' = TRUE
    /\ UNCHANGED <<shapeToMove, consoleErrors, now, timerSetAt, inBody, left, backgroundColor, response,
                   hfValue, reactions, microtasks, completions, applyCount, settledWhen>>

\* .then taken to call back on a later settlement only
AttachThenPendingOnly ==
    IF hfState = "pending"
    THEN /\ reactions' = reactions + 1
         /\ UNCHANGED microtasks
    ELSE UNCHANGED <<reactions, microtasks>>

\* fetchPromise.then(callback): on a fulfilled promise the callback is queued
\* as a microtask at once, on a pending one it waits for the settlement, on
\* a rejected one it is never called
AttachThen ==
    IF hfState = "fulfilled"
    THEN /\ microtasks' = Append(microtasks, ThenJob)
         /\ UNCHANGED reactions
    ELSE IF hfState = "pending"
    THEN /\ reactions' = reactions + 1
         /\ UNCHANGED microtasks
    ELSE UNCHANGED <<reactions, microtasks>>

\* one call of animate by the browser. reschedule: requestAnimationFrame is
\* called again; complete: the else branch is taken; attach: .then is called
AnimateEffect(reschedule, complete, attach) ==
    /\ rafScheduled
    /\ TaskMayRun
    /\ left' = setShapePostion(Progress(now - startTime))
    /\ rafScheduled' = reschedule
    /\ completions' = IF complete THEN completions + 1 ELSE completions
    /\ IF attach THEN AttachThen ELSE UNCHANGED <<reactions, microtasks>>
    /\ UNCHANGED <<shapeToMove, consoleErrors, pc, now, timerSetAt, startTime, inBody, backgroundColor,
                   net, response, hfState, hfValue, requests, applyCount,
                   settledWhen>>

\* .then called in every frame instead of in the else branch only
animateThenEveryFrame ==
    LET progress == Progress(now - startTime)
    IN  AnimateEffect(KeepAnimating(progress), ~KeepAnimating(progress),
                      reactions + Len(microtasks) < 2)

\* the final frame looks at the promise once and attaches nothing when it
\* is still pending
animateNoLateAttach ==
    LET progress == Progress(now - startTime)
    IN  AnimateEffect(KeepAnimating(progress), ~KeepAnimating(progress),
                      ~KeepAnimating(progress) /\ hfState = "fulfilled")

\* requestAnimationFrame called outside the if, so also after the last frame
animateAlwaysReschedules ==
    LET progress == Progress(now - startTime)
    IN  AnimateEffect(KeepAnimating(progress) \/ completions < 2,
                      ~KeepAnimating(progress), ~KeepAnimating(progress))

animate ==
    LET progress == Progress(now - startTime)
    IN  AnimateEffect(KeepAnimating(progress), ~KeepAnimating(progress),
                      ~KeepAnimating(progress))

\* the network answers: fetch() resolves with a Response of any status and body
Respond ==
    /\ net = "inflight"
    /\ TaskMayRun
    /\ \E ok \in BOOLEAN, body \in Bodies :
          response' = [ok |-> ok, body |-> body]
    /\ net' = "responded"
    /\ microtasks' = Append(microtasks, ResumeJob("fetch", FALSE, Null))
    /\ UNCHANGED <<shapeToMove, consoleErrors, pc, now, timerSetAt, startTime, inBody, left, backgroundColor,
                   rafScheduled, hfState, hfValue, reactions, requests,
                   completions, applyCount, settledWhen>>

\* the request fails at the network layer: fetch() rejects with a TypeError
TransportFail ==
    /\ net = "inflight"
    /\ TaskMayRun
    /\ net' = "failed"
    /\ microtasks' = Append(microtasks, ResumeJob("fetch", TRUE, Err("Failed to fetch")))
    /\ UNCHANGED <<shapeToMove, consoleErrors, pc, now, timerSetAt, startTime, inBody, left, backgroundColor,
                   rafScheduled, response, hfState, hfValue, reactions, requests,
                   completions, applyCount, settledWhen>>

\* the body has been read: response.text() resolves with it
BodyRead ==
    /\ net = "reading"
    /\ TaskMayRun
    /\ net' = "bodyRead"
    /\ microtasks' = Append(microtasks, ResumeJob("text", FALSE, Str(response.body)))
    /\ UNCHANGED <<shapeToMove, consoleErrors, pc, now, timerSetAt, startTime, inBody, left, backgroundColor,
                   rafScheduled, response, hfState, hfValue, reactions, requests,
                   completions, applyCount, settledWhen>>

\* the connection breaks while the body is read: response.text() rejects
BodyFail ==
    /\ net = "reading"
    /\ TaskMayRun
    /\ net' = "bodyFailed"
    /\ microtasks' = Append(microtasks, ResumeJob("text", TRUE, Err("network error")))
    /\ UNCHANGED <<shapeToMove, consoleErrors, pc, now, timerSetAt, startTime, inBody, left, backgroundColor,
                   rafScheduled, response, hfState, hfValue, reactions, requests,
                   completions, applyCount, settledWhen>>

\* the microtask that resumes handleFetch; a return fulfils fetchPromise and
\* queues the callbacks waiting on it
ResumeHandleFetch ==
    /\ microtasks # <<>>
    /\ Head(microtasks).job = "handleFetch"
    /\ LET j == Head(microtasks)
           r == handleFetch(j.at, j.thrown, j.val, response)
       IN  CASE r.kind = "await" ->
                  /\ net' = "reading"
                  /\ microtasks' = Tail(microtasks)
                  /\ UNCHANGED <<hfState, hfValue, reactions, settledWhen>>
             [] r.kind = "return" ->
                  /\ hfState' = "fulfilled"
                  /\ hfValue' = r.value
                  /\ microtasks' = Tail(microtasks) \o [i \in 1..reactions |-> ThenJob]
                  /\ reactions' = 0
                  /\ settledWhen' = IF MotionStopped THEN "stopped" ELSE "moving"
                  /\ UNCHANGED net
             [] OTHER ->
                  /\ hfState' = "rejected"
                  /\ hfValue' = r.value
                  /\ microtasks' = Tail(microtasks)
                  /\ reactions' = 0
                  /\ settledWhen' = IF MotionStopped THEN "stopped" ELSE "moving"
                  /\ UNCHANGED net
    /\ UNCHANGED <<shapeToMove, consoleErrors, pc, now, timerSetAt, startTime, inBody, left, backgroundColor,
                   rafScheduled, response, requests, completions, applyCount>>

\* the colour set by replacing the whole style text, which drops left
ThenCallbackResetsStyle ==
    /\ microtasks # <<>>
    /\ Head(microtasks).job = "then"
    /\ backgroundColor' = applyBgColor(Or(hfValue[1], hfValue[2]))
    /\ left' = Px(0)
    /\ applyCount' = applyCount + 1
    /\ microtasks' = Tail(microtasks)
    /\ UNCHANGED <<shapeToMove, consoleErrors, pc, now, timerSetAt, startTime, inBody,
                   rafScheduled, net, response, hfState, hfValue, reactions,
                   requests, completions, settledWhen>>

\* the microtask that runs the callback of .then:
\* ([fetchResult, fetchError]) => applyBgColor(fetchResult || fetchError, shape)
ThenCallback ==
    /\ microtasks # <<>>
    /\ Head(microtasks).job = "then"
    /\ backgroundColor' = applyBgColor(Or(hfValue[1], hfValue[2]))
    /\ applyCount' = applyCount + 1
    /\ microtasks' = Tail(microtasks)
    /\ UNCHANGED <<shapeToMove, consoleErrors, pc, now, timerSetAt, startTime, inBody, left, rafScheduled,
                   net, response, hfState, hfValue, reactions, requests,
                   completions, settledWhen>>

Next ==
    \/ Tick
    \/ startLoader
    \/ TimerFired
    \/ animate
    \/ Respond
    \/ TransportFail
    \/ BodyRead
    \/ BodyFail
    \/ ResumeHandleFetch
    \/ ThenCallback

Spec == Init /\ [][Next]_vars

\* the same loader, started on any shape handle
HandleSpec == InitAnyHandle /\ [][Next]_vars

\* The browser keeps its event loop going: time passes, a due timer fires,
\* a requested animation frame is delivered and queued microtasks are run.
\* Nothing obliges the network to answer.
FairSpec ==
    /\ Spec
    /\ WF_vars(Tick)
    /\ WF_vars(TimerFired)
    /\ WF_vars(animate)
    /\ WF_vars(ResumeHandleFetch)
    /\ WF_vars(ThenCallback)

----------------------------------------------------------------------------
(* Properties *)

\* C1: the shape's colour differs from its initial black (applyBgColor has
\* run) only if the motion has completed, the shape standing at 100 px with
\* no frame scheduled, and fetchPromise has settled; whatever the order of
\* the settlement and the frames.
C1_ColorOnlyAfterMotionAndFetch ==
    (backgroundColor # defaultBgColor \/ applyCount > 0) =>
        /\ MotionStopped
        /\ completions >= 1
        /\ left = Px(100)
        /\ hfState = "fulfilled"

\* the fetch settled while the shape was moving and the colour has changed
C1_Witness ==
    /\ backgroundColor # defaultBgColor
    /\ settledWhen = "moving"

\* C2: applyBgColor runs at most once, and once it has run no later step
\* (frame, timer, network event, microtask) writes the colour again.
C2_ColorAppliedAtMostOnce ==
    /\ [](applyCount <= 1)
    /\ [][applyCount >= 1 =>
            /\ applyCount' = applyCount
            /\ backgroundColor' = backgroundColor]_vars

\* the colour has been applied and time has passed since
C2_Witness ==
    /\ applyCount = 1
    /\ now > startTime + moveDurationInMs

\* C3: while the motion has stopped and fetchPromise is pending the shape
\* stands at 100 px, black; the step that settles the promise leaves the
\* colour callback as the only runnable job, and the step after that is the
\* colour change, at the same clock value and position.
C3_LateFetchColorsAtSettlement ==
    /\ []((MotionStopped /\ hfState = "pending") =>
            (left = Px(100) /\ backgroundColor = defaultBgColor /\ reactions = 1))
    /\ [][(MotionStopped /\ hfState = "pending" /\ hfState' # "pending") =>
            (hfState' = "fulfilled" /\ microtasks' = <<ThenJob>>)]_vars
    /\ [][(settledWhen = "stopped" /\ applyCount = 0) =>
            /\ applyCount' = 1
            /\ backgroundColor' = applyBgColor(Or(hfValue[1], hfValue[2]))
            /\ now' = now
            /\ left' = left]_vars

\* the fetch settled after the shape had stopped and the colour has changed
C3_Witness ==
    /\ settledWhen = "stopped"
    /\ applyCount = 1
    /\ backgroundColor # defaultBgColor

\* C4: when fetchPromise has settled before the motion completes, the colour
\* is not changed at the settlement (it stays black while a frame is
\* scheduled); the frame that takes the else branch queues the colour
\* callback, and the step after that frame is the colour change, at the same
\* clock value, so no later frame is involved.
C4_EarlyFetchColorsAtStop ==
    /\ []((settledWhen = "moving" /\ ~MotionStopped) =>
            (backgroundColor = defaultBgColor /\ applyCount = 0 /\ microtasks = <<>>))
    /\ [][(settledWhen = "moving" /\ completions = 0 /\ completions' = 1) =>
            (left' = Px(100) /\ microtasks' = <<ThenJob>> /\ ~rafScheduled')]_vars
    /\ [][(settledWhen = "moving" /\ MotionStopped /\ applyCount = 0) =>
            /\ applyCount' = 1
            /\ backgroundColor' # defaultBgColor
            /\ now' = now
            /\ UNCHANGED <<left, completions, rafScheduled>>]_vars

\* the fetch settled during the motion, the last frame has just run and its
\* colour callback has been applied
C4_Witness ==
    /\ settledWhen = "moving"
    /\ MotionStopped
    /\ applyCount = 1
    /\ backgroundColor = shapeBgColor.complete

\* C5: the colour applied is determined by the outcome of handleFetch:
\* [text "1", null] gives green, [text "0", null] gives blue, and every
\* [null, error] gives red.
C5_ColorClassifiesOutcome ==
    applyCount > 0 =>
        /\ hfValue = <<Str(<<"1">>), Null>> => backgroundColor = "green"
        /\ hfValue = <<Str(<<"0">>), Null>> => backgroundColor = "blue"
        /\ hfValue[2].t = "error" => backgroundColor = "red"

\* a body "0" has turned the shape blue
C5_Witness ==
    /\ applyCount > 0
    /\ hfValue = <<Str(<<"0">>), Null>>
    /\ backgroundColor = "blue"

\* C6: for every outcome [text, null] whose text is neither "1" nor "0",
\* the empty text included, the colour applied is red.
C6_OtherBodyIsRed ==
    (/\ applyCount > 0
     /\ hfValue[2] = Null
     /\ hfValue[1].t = "string"
     /\ hfValue[1].s \notin {<<"1">>, <<"0">>})
    => backgroundColor = "red"

\* The response the request got, once it has one
Responded == net \in {"responded", "reading", "bodyRead", "bodyFailed"}

\* C7: for a response whose ok is false, whatever its body, response.text()
\* is never called, fetchPromise is fulfilled with [null, Error('Response
\* was not ok')] and never with the body, an applied colour is red, and once
\* the motion has stopped and no microtask is left the colour is red.
C7_StatusOverridesBody ==
    (Responded /\ ~response.ok) =>
        /\ net = "responded"
        /\ hfState \in {"pending", "fulfilled"}
        /\ hfState = "pending" => microtasks # <<>>
        /\ hfState = "fulfilled" => hfValue = <<Null, Err("Response was not ok")>>
        /\ applyCount > 0 => backgroundColor = "red"
        /\ (MotionStopped /\ microtasks = <<>>) => backgroundColor = "red"

\* a response that is not ok, with body "1", has turned the shape red
C7_Witness ==
    /\ net = "responded"
    /\ ~response.ok
    /\ response.body = <<"1">>
    /\ backgroundColor = "red"

\* The request failed at the network layer
TransportFailed == net \in {"failed", "bodyFailed"}

\* C8: fetchPromise is never rejected; after a transport failure it is
\* fulfilled with [null, error] as soon as handleFetch has been resumed, an
\* applied colour is red, and once the motion has stopped and no microtask is
\* left the shape stands at 100 px, red. The steps that report and absorb the
\* failure leave the motion (position, scheduled frame, start time) alone.
C8_TransportFailureAbsorbed ==
    /\ [](hfState # "rejected")
    /\ [](TransportFailed =>
            /\ microtasks = <<>> => (hfState = "fulfilled" /\ hfValue[1] = Null
                                     /\ hfValue[2].t = "error")
            /\ applyCount > 0 => backgroundColor = "red"
            /\ (MotionStopped /\ microtasks = <<>>) =>
                  (backgroundColor = "red" /\ left = Px(100)))
    /\ [][(TransportFailed' /\ (net' # net \/ hfState' # hfState)) =>
            (/\ left' = left
             /\ rafScheduled' = rafScheduled
             /\ startTime' = startTime
             /\ completions' = completions)]_vars

\* fetch() was rejected while the shape was moving; the shape is red
C8_Witness ==
    /\ net = "failed"
    /\ settledWhen = "moving"
    /\ backgroundColor = "red"
    /\ left = Px(100)

C10_MotionCompletesOnce ==
    /\ [](completions <= 1)
    /\ [](completions = 1 => (~rafScheduled /\ left = Px(100)))
    /\ [][completions' # completions =>
            /\ Progress(now - startTime) = One
            /\ now - startTime >= moveDurationInMs
            /\ left' = Px(100)
            /\ ~rafScheduled']_vars
    /\ [][(rafScheduled /\ ~rafScheduled') => completions' = completions + 1]_vars
    /\ (pc = "started" /\ startTime + moveDurationInMs + ClockStep <= MaxNow)
          ~> (completions = 1)

\* the motion has completed after frames that left it incomplete
C10_Witness ==
    /\ completions = 1
    /\ left = Px(100)
    /\ now > startTime + moveDurationInMs

----------------------------------------------------------------------------
(* The position over time *)

RatLeq(a, b) == ~RatLess(b, a)

\* distance * min((t - delay) / duration, 1) for a time t since the invocation,
\* 0 before the delay
PositionSinceInvocation(t) ==
    IF t < delayInMs THEN Px(0)
    ELSE IF t - delayInMs >= moveDurationInMs THEN Px(pxSize)
    ELSE Rat(pxSize * (t - delayInMs), moveDurationInMs)

\* distance * min(e / duration, 1) for a time e since the start of the motion
PositionSinceStart(e) ==
    IF e >= moveDurationInMs THEN Px(pxSize)
    ELSE Rat(pxSize * e, moveDurationInMs)

\* C11 as stated: at every time t since the invocation the position is 0
\* before the delay, distance * min((t - delay) / duration, 1) from the
\* delay on, and so exactly 100 from delay + duration on.
C11_PositionFollowsInvocationClock ==
    pc \in {"delay", "started"} => left = PositionSinceInvocation(now - timerSetAt)

\* C11 amended: the position is 0 until the motion starts, which is at
\* startTime, at least delayInMs after the invocation; every change of the
\* position writes distance * min((t - startTime) / duration, 1) for the time
\* t of that frame; between frames the position keeps the last value, which
\* is at most that of the formula at the current time; and it is exactly 100
\* once a frame has sampled a time at or after startTime + duration.
C11_PositionFollowsMotionClock ==
    /\ [](pc \in {"idle", "delay"} => left = Px(0))
    /\ [](pc = "started" => startTime - timerSetAt >= delayInMs)
    /\ [][left' # left => left' = PositionSinceStart(now' - startTime')]_vars
    /\ [](pc = "started" => RatLeq(left, PositionSinceStart(now - startTime)))
    /\ [](completions >= 1 => (left = Px(pxSize) /\ now - startTime >= moveDurationInMs))

\* the timer fired late and a frame has put the shape part of the way
C11_Witness ==
    /\ pc = "started"
    /\ startTime - timerSetAt > delayInMs
    /\ RatLess(Px(0), left)
    /\ RatLess(left, Px(pxSize))
    /\ left = PositionSinceStart(now - startTime)

\* a step of animate that is visible in the state
FrameStep == rafScheduled /\ (left' # left \/ rafScheduled' # rafScheduled)

\* C12: the position always lies in [0, 100]; no step decreases it; a frame
\* writes 100 * min(elapsed / duration, 1) for the elapsed time it samples;
\* the frame that ends the motion writes exactly 100, where the shape stays.
C12_PositionClampedAndMonotone ==
    /\ [](RatLeq(Px(0), left) /\ RatLeq(left, Px(100)))
    /\ [][RatLeq(left, left')]_vars
    /\ [][FrameStep =>
            left' = (IF now - startTime >= moveDurationInMs
                     THEN Px(100)
                     ELSE Rat(100 * (now - startTime), moveDurationInMs))]_vars
    /\ [][(FrameStep /\ ~rafScheduled') => left' = Px(100)]_vars
    /\ [](MotionStopped => left = Px(100))

\* the last frame came late, the request still in flight: the position is
\* clamped to 100
C12_Witness ==
    /\ MotionStopped
    /\ net = "inflight"
    /\ now - startTime > moveDurationInMs
    /\ left = Px(100)

----------------------------------------------------------------------------
(* Progress of the whole run *)

\* the motion has started early enough for the clock of the model to reach
\* the end of its duration
StartedInTime == pc = "started" /\ startTime + moveDurationInMs + ClockStep <= MaxNow

Colours == {shapeBgColor.complete, shapeBgColor.progress, shapeBgColor.error}

\* C13: once started, the motion reaches 100 px and stops, in every fair run
\* and so also in those where the request never settles; as long as the
\* request is in flight the colour is black, and with the motion stopped and
\* the request in flight nothing is left to run: no frame, no timer, no
\* microtask, the one colour callback waiting on a pending (not rejected)
\* promise.
C13_MotionCompletesWithoutFetch ==
    /\ StartedInTime ~> (MotionStopped /\ left = Px(100))
    /\ [](net = "inflight" =>
            (backgroundColor = defaultBgColor /\ applyCount = 0 /\ hfState = "pending"))
    /\ []((MotionStopped /\ net = "inflight") =>
            /\ left = Px(100)
            /\ microtasks = <<>>
            /\ reactions = 1
            /\ ~ENABLED animate
            /\ ~ENABLED TimerFired
            /\ ~ENABLED ResumeHandleFetch
            /\ ~ENABLED ThenCallback)

\* the shape has stopped, black, and has been waiting for the request for
\* longer than the motion took
C13_Witness ==
    /\ MotionStopped
    /\ net = "inflight"
    /\ left = Px(100)
    /\ backgroundColor = defaultBgColor
    /\ now - startTime >= moveDurationInMs + ClockStep

\* C14: in every fair run, once fetchPromise has settled (and the motion has
\* started in time) the shape reaches 100 px with one of the three colours
\* and nothing left to run; with the motion stopped and the promise settled
\* the colour follows whatever the order of the two events was, and no state
\* with both events past and no microtask left is black.
C14_SettledFetchReachesColour ==
    /\ (StartedInTime /\ hfState = "fulfilled") ~>
          (MotionStopped /\ left = Px(100) /\ backgroundColor \in Colours
           /\ microtasks = <<>>)
    /\ (MotionStopped /\ hfState = "fulfilled") ~> (backgroundColor \in Colours)
    /\ []((MotionStopped /\ hfState = "fulfilled" /\ microtasks = <<>>) =>
            (backgroundColor \in Colours /\ applyCount = 1))

\* the terminal state after a settlement that came after the last frame
C14_Witness ==
    /\ MotionStopped
    /\ hfState = "fulfilled"
    /\ settledWhen = "stopped"
    /\ microtasks = <<>>
    /\ left = Px(100)
    /\ backgroundColor = shapeBgColor.progress

----------------------------------------------------------------------------
(* Independence of the order of events *)

\* nothing is left to happen: the motion has stopped, fetchPromise has
\* settled and the microtask queue is empty
Terminal == MotionStopped /\ hfState = "fulfilled" /\ microtasks = <<>>

\* the colour that belongs to the outcome of the request alone: red for a
\* failure and for a response that is not ok, else the colour of the body
ColourOfOutcome ==
    IF net \in {"failed", "bodyFailed"} THEN shapeBgColor.error
    ELSE IF ~response.ok THEN shapeBgColor.error
    ELSE applyBgColor(Or(Str(response.body), Null))

\* C15: in every terminal state the position is 100 and the colour is the
\* one that belongs to the outcome of the request, whether fetchPromise
\* settled while the shape was moving or after it had stopped; so two runs
\* with the same outcome end in the same colour and position.
C15_FinalStateIndependentOfOrder ==
    Terminal =>
        /\ left = Px(100)
        /\ backgroundColor = ColourOfOutcome
        /\ settledWhen \in {"moving", "stopped"}

\* a terminal state reached with the fetch settled during the motion
C15_Witness ==
    /\ Terminal
    /\ settledWhen = "moving"
    /\ net = "bodyRead"
    /\ response.body = <<"1">>
    /\ backgroundColor = shapeBgColor.complete

----------------------------------------------------------------------------
(* The two-flag coordinator of the design, as state functions of the       *)
(* implementation. The step that sets a second flag in the implementation  *)
(* (the last frame, or the settlement after it) is followed at once by the *)
(* microtask of the colour callback; the coordinator's step is that        *)
(* microtask.                                                              *)

motionComplete == completions >= 1 /\ (settledWhen = "moving" => applyCount >= 1)

fetchSettled == hfState = "fulfilled" /\ (settledWhen = "stopped" => applyCount >= 1)

coordState ==
    IF pc = "idle" THEN "Idle"
    ELSE IF motionComplete /\ fetchSettled THEN "BothDone"
    ELSE IF motionComplete THEN "MotionDone"
    ELSE "Waiting"

coordVars == <<coordState, motionComplete, fetchSettled, backgroundColor, applyCount>>

ColourAction ==
    /\ applyCount' = applyCount + 1
    /\ backgroundColor' \in Colours

CoordStart ==
    /\ coordState = "Idle"
    /\ coordState' = "Waiting"
    /\ ~motionComplete' /\ ~fetchSettled'
    /\ UNCHANGED <<backgroundColor, applyCount>>

CoordMotionDone ==
    /\ coordState = "Waiting"
    /\ ~motionComplete /\ motionComplete'
    /\ fetchSettled' = fetchSettled
    /\ IF fetchSettled
       THEN coordState' = "BothDone" /\ ColourAction
       ELSE coordState' = "MotionDone" /\ UNCHANGED <<backgroundColor, applyCount>>

CoordFetchSettled ==
    /\ coordState \in {"Waiting", "MotionDone"}
    /\ ~fetchSettled /\ fetchSettled'
    /\ motionComplete' = motionComplete
    /\ IF motionComplete
       THEN coordState' = "BothDone" /\ ColourAction
       ELSE coordState' = "Waiting" /\ UNCHANGED <<backgroundColor, applyCount>>

CoordNext == CoordStart \/ CoordMotionDone \/ CoordFetchSettled

\* C16: every step of the implementation is a step of the two-flag
\* coordinator or leaves the coordinator's state unchanged: the run goes
\* Idle, Waiting, then MotionDone (when the motion ends first), then
\* BothDone; the colour is applied exactly on the step that makes the second
\* flag true, whichever it is, and in no other state than BothDone.
C16_RefinesTwoFlagCoordinator ==
    /\ coordState = "Idle" /\ ~motionComplete /\ ~fetchSettled
    /\ [][CoordNext]_coordVars
    /\ [](coordState = "BothDone" <=> applyCount = 1)
    /\ [](coordState # "BothDone" => backgroundColor = defaultBgColor)

\* BothDone reached with the motion's flag set last
C16_Witness ==
    /\ coordState = "BothDone"
    /\ settledWhen = "moving"
    /\ backgroundColor = shapeBgColor.error

----------------------------------------------------------------------------
(* Who writes what *)

\* C17: only a step of animate changes the position, and it leaves the
\* colour alone; only the colour callback changes the colour, and it leaves
\* the position and the scheduled frame alone; the settlement of
\* fetchPromise and the timer callback change neither; and once the motion
\* has completed no frame is scheduled and the position stays.
C17_SingleWriterPerAttribute ==
    /\ [][left' # left => (rafScheduled /\ microtasks = <<>> /\ pc = "started")]_vars
    /\ [][FrameStep => (backgroundColor' = backgroundColor /\ applyCount' = applyCount)]_vars
    /\ [][(backgroundColor' # backgroundColor \/ applyCount' # applyCount) =>
            /\ microtasks # <<>> /\ Head(microtasks) = ThenJob
            /\ left' = left
            /\ rafScheduled' = rafScheduled]_vars
    /\ [][hfState' # hfState =>
            (left' = left /\ backgroundColor' = backgroundColor)]_vars
    /\ [][pc' # pc =>
            (left' = left /\ backgroundColor' = backgroundColor)]_vars
    /\ [][completions >= 1 => (left' = left /\ ~rafScheduled')]_vars

\* the colour has been written after the position reached 100
C17_Witness ==
    /\ applyCount = 1
    /\ left = Px(100)
    /\ backgroundColor = shapeBgColor.error
    /\ net = "bodyFailed"

----------------------------------------------------------------------------
(* The shape handle *)

\* C18: with the shape handle missing, startLoader does not throw, a
\* diagnostic is logged, and the invocation goes on to the delay (and from
\* there to the motion and the request).
C18_MissingShapeLoggedNotThrown ==
    (shapeToMove = "null" /\ pc # "idle") =>
        /\ pc # "threw"
        /\ consoleErrors >= 1
        /\ pc \in {"delay", "started"}

----------------------------------------------------------------------------
(* The request and the movement *)

DataUsed ==
    \/ reactions > 0
    \/ \E i \in 1..Len(microtasks) : microtasks[i] = ThenJob
    \/ applyCount > 0

====
